---- MODULE Spec2Model ----
(***************************************************************************)
(* Disk Marmitas API (server.js): three Express routes over one Firestore  *)
(* document at DOC_PATH.  A handler runs synchronously up to its `await`,  *)
(* where it has issued one store operation; the store serialises the       *)
(* pending operations in any order, and the handler's continuation sends   *)
(* the response.                                                           *)
(*                                                                         *)
(* JavaScript values are written as their JSON text: "undefined" is a key  *)
(* that is not there, "{}" is an object whose members are the paths below  *)
(* it, every other string is a scalar or an array taken as a whole.        *)
(***************************************************************************)
EXTENDS Integers, FiniteSets, Bags, TLC

VARIABLES
    db,       \* the Firestore handle of server.js:54, "firestore" or "null"
    store,    \* the document at DOC_PATH: [exists, data]
    pending,  \* bag of requests suspended at their await, operation issued
    res,      \* the response sent last, with the request it answers
    replaced, \* history: some full replace has succeeded
    followsPut \* history: the only request under way is a GET sent right
               \* after the response to a PUT

vars == <<db, store, pending, res, replaced, followsPut>>

\* Number of requests that may be suspended at their await at the same time.
MaxInFlight == 2

-----------------------------------------------------------------------------
(* JavaScript values *)

\* The values `!x` takes as false, among those JSON can carry (and undefined).
JsFalsy == {"undefined", "null", "false", "0", "''"}

\* `novosDados.categories` used as a condition (line 99).
Truthy(v) == v \notin JsFalsy

\* A looser test, which the string "true" passes as well.
IsBooleanOrItsText(v) == v \in {"true", "false", "'true'"}

\* `typeof isOpen !== 'boolean'` (line 122), negated.
IsBoolean(v) == v \in {"true", "false"}

\* `isOpen ? 'ABERTA' : 'FECHADA'` in the template of line 130.
LojaMensagem(isOpen) ==
    IF Truthy(isOpen) THEN "Loja ABERTA com sucesso." ELSE "Loja FECHADA com sucesso."

-----------------------------------------------------------------------------
(* The document and the request bodies *)

Paths == {"categories", "settings", "settings.isOpen", "settings.theme"}

Obj(c, s, o, t) ==
    [p \in Paths |-> CASE p = "categories"      -> c
                       [] p = "settings"        -> s
                       [] p = "settings.isOpen" -> o
                       [] p = "settings.theme"  -> t]

EmptyObject == Obj("undefined", "undefined", "undefined", "undefined")

\* Values of `categories` a caller sends: absent, falsy ones, arrays.
CategoriesValues == {"undefined", "null", "0", "''", "[]", "[combo]"}

\* Values of `settings` a caller sends: absent, a scalar, or an object with
\* a sibling of isOpen and possibly isOpen itself.
SettingsValues ==
    { <<"undefined", "undefined", "undefined">>,
      <<"'legacy'",  "undefined", "undefined">>,
      <<"{}",        "undefined", "'dark'">>,
      <<"{}",        "false",     "'dark'">> }

\* JSON objects a request body may hold.
JsonObjects == { Obj(c, s[1], s[2], s[3]) : c \in CategoriesValues, s \in SettingsValues }

\* Documents found at DOC_PATH when the server starts, written by someone
\* else: with or without `categories`.
StoredDocuments ==
    { Obj(c, s[1], s[2], s[3]) : c \in {"undefined", "[combo]"}, s \in SettingsValues }

\* req.body of PUT /api/menu: not there at all, or a JSON object.
NoBody == [defined |-> FALSE, json |-> EmptyObject]
PutBodies == {NoBody} \cup { [defined |-> TRUE, json |-> j] : j \in JsonObjects }

\* req.body.isOpen of PATCH /api/status-loja.
IsOpenValues == {"undefined", "null", "true", "false", "'true'", "'yes'", "1"}

Request(route, novosDados, isOpen) ==
    [route |-> route, novosDados |-> novosDados, isOpen |-> isOpen]

NoRequest == Request("none", NoBody, "undefined")

-----------------------------------------------------------------------------
(* Responses *)

ErroBody(msg) ==
    [erro |-> msg, mensagem |-> "undefined", estado |-> "undefined",
     isDoc |-> FALSE, doc |-> EmptyObject]

MensagemBody(msg, estado) ==
    [erro |-> "undefined", mensagem |-> msg, estado |-> estado,
     isDoc |-> FALSE, doc |-> EmptyObject]

DocBody(d) ==
    [erro |-> "undefined", mensagem |-> "undefined", estado |-> "undefined",
     isDoc |-> TRUE, doc |-> d]

Response(req, status, body) == [req |-> req, status |-> status, body |-> body]

NoResponse == Response(NoRequest, 0, ErroBody("undefined"))

-----------------------------------------------------------------------------
(* The document store behind db.doc(DOC_PATH) *)

Absent == [exists |-> FALSE, data |-> EmptyObject]

\* A store operation either takes effect ("ok") or is rejected ("fail").
StoreOutcomes == {"ok", "fail"}

\* set(novosDados, {merge: true}): the fields novosDados lacks are kept.
DocSetMerge(old, novosDados) ==
    [exists |-> TRUE,
     data   |-> [p \in Paths |-> IF novosDados[p] = "undefined" THEN old.data[p]
                                 ELSE novosDados[p]]]

\* DocumentReference.set(novosDados): the whole document becomes novosDados.
DocSet(old, novosDados) == [exists |-> TRUE, data |-> novosDados]

\* set({settings: {isOpen}}) in the place of update(): nothing else is kept.
DocUpdateWhole(old, isOpen) ==
    [exists |-> TRUE, data |-> Obj("undefined", "{}", isOpen, "undefined")]

\* DocumentReference.update({'settings.isOpen': isOpen}): the field at the
\* dotted path is set; a `settings` that is not an object is replaced by one.
DocUpdate(old, isOpen) ==
    [exists |-> TRUE,
     data   |-> [old.data EXCEPT !["settings"] = "{}", !["settings.isOpen"] = isOpen]]

\* set(..., {merge: true}) in the place of update(): no document is needed.
UpdateAppliesUpsert(old, outcome) == outcome = "ok"

\* update() is rejected when there is no document to update.
UpdateApplies(old, outcome) == outcome = "ok" /\ old.exists

-----------------------------------------------------------------------------
(* The process *)

\* After the module has run: the credentials were loaded or not (lines 27-54),
\* the document is there or not, no request has come yet.
Init ==
    /\ db \in {"firestore", "null"}
    /\ store \in {Absent} \cup { [exists |-> TRUE, data |-> j] : j \in StoredDocuments }
    /\ pending = EmptyBag
    /\ res = NoResponse
    /\ replaced = FALSE
    /\ followsPut = FALSE

\* The handler of req reaches its await with one operation handed to the store.
Suspend(req) ==
    /\ BagCardinality(pending) < MaxInFlight
    /\ pending' = pending (+) SetToBag({req})

\* The operation of req has settled and its handler goes on.
Resume(req) ==
    /\ BagIn(req, pending)
    /\ pending' = pending (-) SetToBag({req})

-----------------------------------------------------------------------------
(* Guards and replies of the handlers *)

\* The guard left out.
DbConnectedAlways == TRUE

\* `if (!db) return res.status(500)...`, negated: the handler goes on.
DbConnected == db # "null"

NotConnected(req) == Response(req, 500, ErroBody("Base de dados nao conectada."))

\* Only `!novosDados`: any object passes.
PutMenuValidAnyObject(novosDados) == novosDados.defined

\* `!novosDados || !novosDados.categories` (line 99), negated.
PutMenuValid(novosDados) ==
    novosDados.defined /\ Truthy(novosDados.json["categories"])

PutMenuInvalid(req) ==
    Response(req, 400, ErroBody("Dados invalidos. O objeto deve conter \"categories\"."))

PatchInvalid(req) ==
    Response(req, 400, ErroBody("O campo 'isOpen' deve ser booleano (true ou false)."))

\* Without the `!doc.exists` test: a missing document is an empty 200.
GetMenuReplyEmpty200(req, outcome, doc) ==
    IF outcome = "fail" THEN Response(req, 500, ErroBody("Erro interno no servidor."))
    ELSE Response(req, 200, DocBody(doc.data))

\* Lines 79-85: what GET answers once db.doc(DOC_PATH).get() has settled.
GetMenuReply(req, outcome, doc) ==
    IF outcome = "fail" THEN Response(req, 500, ErroBody("Erro interno no servidor."))
    ELSE IF ~doc.exists THEN Response(req, 404, ErroBody("Configuracao nao encontrada."))
    ELSE Response(req, 200, DocBody(doc.data))

\* With the rejection swallowed: the confirmation is sent all the same.
PutMenuReplySwallow(req, outcome) ==
    Response(req, 200, MensagemBody("Menu atualizado com sucesso!", "undefined"))

\* Lines 104-109: what PUT answers once set() has settled.
PutMenuReply(req, outcome) ==
    IF outcome = "ok"
    THEN Response(req, 200, MensagemBody("Menu atualizado com sucesso!", "undefined"))
    ELSE Response(req, 500, ErroBody("Erro ao gravar dados na base de dados."))

\* Lines 128-135: what PATCH answers once update() has settled.
PatchReply(req, applied) ==
    IF applied
    THEN Response(req, 200, MensagemBody(LojaMensagem(req.isOpen), req.isOpen))
    ELSE Response(req, 500, ErroBody("Erro ao atualizar estado."))

-----------------------------------------------------------------------------
(* The handlers, up to their await and from it *)

\* app.get('/api/menu'), lines 75-79.
GetMenu ==
    LET req == Request("GET", NoBody, "undefined") IN
    /\ IF ~DbConnected
       THEN res' = NotConnected(req) /\ UNCHANGED pending /\ followsPut' = FALSE
       ELSE /\ Suspend(req)
            /\ followsPut' = (res.req.route = "PUT" /\ pending = EmptyBag)
            /\ UNCHANGED res
    /\ UNCHANGED <<db, store, replaced>>

\* app.get('/api/menu'), lines 79-85.
GetMenuResume(req, outcome) ==
    /\ req.route = "GET"
    /\ Resume(req)
    /\ res' = GetMenuReply(req, outcome, store)
    /\ followsPut' = FALSE
    /\ UNCHANGED <<db, store, replaced>>

\* app.put('/api/menu'), lines 93-104.
PutMenu(novosDados) ==
    LET req == Request("PUT", novosDados, "undefined") IN
    /\ IF ~DbConnected
       THEN res' = NotConnected(req) /\ UNCHANGED pending
       ELSE IF ~PutMenuValid(novosDados)
       THEN res' = PutMenuInvalid(req) /\ UNCHANGED pending
       ELSE Suspend(req) /\ UNCHANGED res
    /\ followsPut' = FALSE
    /\ UNCHANGED <<db, store, replaced>>

\* app.put('/api/menu'), lines 104-109.
PutMenuResume(req, outcome) ==
    /\ req.route = "PUT"
    /\ Resume(req)
    /\ store' = IF outcome = "ok" THEN DocSet(store, req.novosDados.json) ELSE store
    /\ res' = PutMenuReply(req, outcome)
    /\ replaced' = (replaced \/ outcome = "ok")
    /\ followsPut' = FALSE
    /\ UNCHANGED db

\* app.patch('/api/status-loja'), lines 117-128.
PatchStatusLoja(isOpen) ==
    LET req == Request("PATCH", NoBody, isOpen) IN
    /\ IF ~DbConnected
       THEN res' = NotConnected(req) /\ UNCHANGED pending
       ELSE IF ~IsBoolean(isOpen)
       THEN res' = PatchInvalid(req) /\ UNCHANGED pending
       ELSE Suspend(req) /\ UNCHANGED res
    /\ followsPut' = FALSE
    /\ UNCHANGED <<db, store, replaced>>

\* app.patch('/api/status-loja'), lines 128-135.
PatchStatusLojaResume(req, outcome) ==
    /\ req.route = "PATCH"
    /\ Resume(req)
    /\ store' = IF UpdateApplies(store, outcome) THEN DocUpdate(store, req.isOpen)
                ELSE store
    /\ res' = PatchReply(req, UpdateApplies(store, outcome))
    /\ followsPut' = FALSE
    /\ UNCHANGED <<db, replaced>>

Next ==
    \/ GetMenu
    \/ \E novosDados \in PutBodies : PutMenu(novosDados)
    \/ \E isOpen \in IsOpenValues : PatchStatusLoja(isOpen)
    \/ \E req \in BagToSet(pending), outcome \in StoreOutcomes :
          GetMenuResume(req, outcome)
    \/ \E req \in BagToSet(pending), outcome \in StoreOutcomes :
          PutMenuResume(req, outcome)
    \/ \E req \in BagToSet(pending), outcome \in StoreOutcomes :
          PatchStatusLojaResume(req, outcome)

Spec == Init /\ [][Next]_vars

\* The deployment whose document has not been created yet.
InitAbsent == Init /\ store = Absent

SpecAbsent == InitAbsent /\ [][Next]_vars

-----------------------------------------------------------------------------
(* Vocabulary of the properties *)

\* The body is an object that has a `categories` key, whatever its value.
ContainsCategories(novosDados) ==
    novosDados.defined /\ novosDados.json["categories"] # "undefined"

PutRequest(novosDados) == Request("PUT", novosDados, "undefined")

PatchRequest(isOpen) == Request("PATCH", NoBody, isOpen)

\* Every leaf of a document but settings.isOpen: the other top-level fields,
\* the members of `settings` beside isOpen, and `settings` itself when it is
\* a scalar (an object is its members, not a leaf).
OtherLeaves(data) ==
    [p \in Paths \ {"settings.isOpen"} |->
        IF p = "settings" /\ data[p] = "{}" THEN "undefined" ELSE data[p]]

GenericErrors ==
    { "Erro interno no servidor.",
      "Erro ao gravar dados na base de dados.",
      "Erro ao atualizar estado." }

-----------------------------------------------------------------------------
(* C1 *)

-----------------------------------------------------------------------------
(* C2 *)

-----------------------------------------------------------------------------
(* C3 *)

\* C3, as stated: a PUT whose body is missing or has no `categories` key is
\* answered 400, hands nothing to the store and leaves the document alone.
C3_RejectedWith400 ==
    [][ \A novosDados \in PutBodies :
          (~ContainsCategories(novosDados) /\ PutMenu(novosDados))
          => ( /\ res' = Response(PutRequest(novosDados), 400, res'.body)
               /\ pending' = pending
               /\ store' = store ) ]_vars

\* C3, amended: such a PUT is answered 400 when a client is configured and
\* 500 when none is; either way it hands nothing to the store and the
\* document is unchanged.
C3_RejectedUnwritten ==
    [][ \A novosDados \in PutBodies :
          (~ContainsCategories(novosDados) /\ PutMenu(novosDados))
          => ( /\ res'.req = PutRequest(novosDados)
               /\ res'.status = IF db = "null" THEN 500 ELSE 400
               /\ res'.body.erro # "undefined"
               /\ pending' = pending
               /\ store' = store ) ]_vars

\* An empty object was refused while a document with a menu is stored.
C3_Witness ==
    /\ res.req = PutRequest([defined |-> TRUE, json |-> EmptyObject])
    /\ res.status = 400
    /\ store.exists
    /\ store.data["categories"] = "[combo]"

-----------------------------------------------------------------------------
(* C4 *)

\* C4, as stated: a PATCH whose isOpen is not a boolean is answered 400,
\* hands nothing to the store and leaves the document alone.
C4_NonBooleanWith400 ==
    [][ \A isOpen \in IsOpenValues \ {"true", "false"} :
          PatchStatusLoja(isOpen)
          => ( /\ res' = Response(PatchRequest(isOpen), 400, res'.body)
               /\ pending' = pending
               /\ store' = store ) ]_vars

\* C4, amended: such a PATCH is answered 400 when a client is configured and
\* 500 when none is; either way it hands nothing to the store and the
\* document is unchanged.
C4_NonBooleanUnwritten ==
    [][ \A isOpen \in IsOpenValues \ {"true", "false"} :
          PatchStatusLoja(isOpen)
          => ( /\ res'.req = PatchRequest(isOpen)
               /\ res'.status = IF db = "null" THEN 500 ELSE 400
               /\ res'.body.erro # "undefined"
               /\ pending' = pending
               /\ store' = store ) ]_vars

\* The string "true" was refused while a document with a closed shop is stored.
C4_Witness ==
    /\ res.req = PatchRequest("'true'")
    /\ res.status = 400
    /\ store.exists
    /\ store.data["settings.isOpen"] = "false"

-----------------------------------------------------------------------------
(* C5 *)

\* C5: the handle never changes; while it is null no request is ever
\* suspended at a store operation, every step is a request answered 500 with
\* an error body, whatever its body, and the document is unchanged.
C5_NoClientAlways500 ==
    /\ (db = "null" => pending = EmptyBag)
    /\ [][ /\ db' = db
           /\ db = "null"
              => ( /\ res'.status = 500
                   /\ res'.body.erro # "undefined"
                   /\ res'.req.route \in {"GET", "PUT", "PATCH"}
                   /\ pending' = EmptyBag
                   /\ store' = store ) ]_vars

\* Without a client, a PUT with a full valid payload was answered 500.
C5_Witness ==
    /\ db = "null"
    /\ res.status = 500
    /\ res.req.route = "PUT"
    /\ res.req.novosDados.json["categories"] = "[combo]"
    /\ ~store.exists

-----------------------------------------------------------------------------
(* C6 *)

\* C6: with a configured client a GET always goes to the store; when the
\* store answers the read, the GET is answered 404 with an error body if there
\* is no document and 200 with the stored data as they are if there is one,
\* with or without `categories`; no step of a GET changes the document.
C6_GetMenu404Or200 ==
    [][ /\ (GetMenu /\ db # "null") => (res' = res /\ store' = store)
        /\ \A req \in BagToSet(pending), outcome \in StoreOutcomes :
             GetMenuResume(req, outcome)
             => ( /\ store' = store
                  /\ (outcome = "ok" /\ ~store.exists)
                     => ( /\ res'.status = 404
                          /\ ~res'.body.isDoc
                          /\ res'.body.erro # "undefined" )
                  /\ (outcome = "ok" /\ store.exists)
                     => ( /\ res'.status = 200
                          /\ res'.body.isDoc
                          /\ res'.body.doc = store.data ) ) ]_vars

\* A GET found nothing at the path.
C6_Witness ==
    /\ res.req.route = "GET"
    /\ res.status = 404
    /\ db # "null"
    /\ ~store.exists

-----------------------------------------------------------------------------
(* C7 *)

\* C7: a store operation that is rejected (a read, a set, an update, and an
\* update of a document that is not there) is answered 500 with one of the
\* generic error bodies, and the document is what it was.
C7_StoreFailure500 ==
    [][ \A req \in BagToSet(pending) :
          ( \/ GetMenuResume(req, "fail")
            \/ PutMenuResume(req, "fail")
            \/ PatchStatusLojaResume(req, "fail")
            \/ (PatchStatusLojaResume(req, "ok") /\ ~store.exists) )
          => ( /\ res'.req = req
               /\ res'.status = 500
               /\ res'.body.erro \in GenericErrors
               /\ ~res'.body.isDoc
               /\ store' = store ) ]_vars

\* A replace was rejected by the store and the old document is still there.
C7_Witness ==
    /\ res.req.route = "PUT"
    /\ res.status = 500
    /\ res.body.erro = "Erro ao gravar dados na base de dados."
    /\ store.exists
    /\ store.data # res.req.novosDados.json

-----------------------------------------------------------------------------
(* C8 *)

\* C8: once a full replace has succeeded, the document exists and has a
\* `categories` field, whatever requests came after.
C8_CategoriesKept ==
    replaced => (store.exists /\ store.data["categories"] # "undefined")

\* After a replace, a PATCH was applied and a later PUT without `categories`
\* was refused.
C8_Witness ==
    /\ replaced
    /\ res.req.route = "PUT"
    /\ res.status = 400
    /\ store.data["settings.isOpen"] = "true"

-----------------------------------------------------------------------------
(* C9 *)

\* A handler has handed one operation to the store; nothing else changed.
Issued ==
    /\ BagCardinality(pending') = BagCardinality(pending) + 1
    /\ pending \sqsubseteq pending'
    /\ store' = store
    /\ res' = res

\* A request was answered without the store.
Refused == pending' = pending /\ store' = store

\* The pending request req got its response and is not handed over again.
Answered(req) ==
    /\ pending' = pending (-) SetToBag({req})
    /\ res'.req = req

\* A replace leaves exactly its payload, whatever a patch had set before.
ReplaceWritten(req) ==
    /\ req.route = "PUT"
    /\ store' = [exists |-> TRUE, data |-> req.novosDados.json]

\* A patch leaves the document it found with only settings.isOpen changed.
PatchWrittenOnlyIsOpen(req) ==
    /\ req.route = "PATCH"
    /\ store.exists /\ store'.exists
    /\ store'.data["settings.isOpen"] = req.isOpen
    /\ OtherLeaves(store'.data) = OtherLeaves(store.data)

\* A patch sets settings.isOpen in an object `settings`, which takes the place
\* of a `settings` that was none; the other fields and members are kept.
PatchWritten(req) ==
    /\ req.route = "PATCH"
    /\ store.exists /\ store'.exists
    /\ store'.data["settings.isOpen"] = req.isOpen
    /\ store'.data["settings"] = "{}"
    /\ \A p \in Paths \ {"settings", "settings.isOpen"} : store'.data[p] = store.data[p]

-----------------------------------------------------------------------------
(* C10 *)

\* C10: starting without a document, a PATCH with a boolean that finds no
\* document is answered 500 and leaves none, so that a GET the store answers
\* next is answered 404; the document appears only in the step that answers
\* 200 to a PUT, and every document there is has `categories`.
C10_OnlyPutCreates ==
    /\ [](store.exists => (replaced /\ store.data["categories"] # "undefined"))
    /\ [][ /\ \A req \in BagToSet(pending), outcome \in StoreOutcomes :
                (~store.exists /\ PatchStatusLojaResume(req, outcome))
                => ( /\ IsBoolean(req.isOpen)
                     /\ res'.req = req
                     /\ res'.status = 500
                     /\ ~store'.exists )
           /\ \A req \in BagToSet(pending) :
                (~store.exists /\ GetMenuResume(req, "ok")) => res'.status = 404
           /\ (~store.exists /\ store'.exists)
              => (res'.req.route = "PUT" /\ res'.status = 200) ]_vars

\* A PATCH opening the shop was answered 500 and there is still no document.
C10_Witness ==
    /\ res.req = PatchRequest("true")
    /\ res.status = 500
    /\ res.body.erro = "Erro ao atualizar estado."
    /\ ~store.exists
    /\ ~replaced

====
